---- MODULE Spec2Model ----
(***************************************************************************)
(* Model of long-cloud-run (main.go): the HTTP handler, Command.Run, the    *)
(* subprocess it supervises, the goroutines it spawns (one waiting on the  *)
(* subprocess, one line scanner per output stream), the backoff ticker     *)
(* bound to the request context, os/exec's context watcher and the         *)
(* handler's goroutine that logs a disconnect.                             *)
(*                                                                         *)
(* Channels `done` and `output` are unbuffered (main.go:123-124), so a     *)
(* send and the matching case of the select (main.go:158) are one joint    *)
(* step.  The ticker's channel is closed by the ticker when its backoff    *)
(* reports Stop (maximum elapsed time exceeded, or context done); a        *)
(* receive on the closed channel yields the zero time, whose Year() is 1   *)
(* (main.go:167).                                                          *)
(*                                                                         *)
(* Wall-clock readings are environment input: whether more than a second   *)
(* passed since the last liveness line (main.go:177) and whether the       *)
(* backoff's elapsed time passed MaxElapsedTime are chosen per step.       *)
(***************************************************************************)
EXTENDS Integers, Sequences, FiniteSets

\* ------------------------------------------------------------- bounds
\* lines the subprocess may write on its standard output
MaxLines == 2
\* ticks the ticker can deliver before its backoff must report Stop
\* (scaled stand-in for "intervals that fit in MaxElapsedTime")
MaxTicks == 2

\* ------------------------------------------------------------- constants
\* b.MaxElapsedTime = 60 * time.Minute, in minutes
MaxElapsedMinutes == 60
\* syscall.WaitStatus.ExitStatus() of a process ended by a signal
Killed == -1

Streams == {"stdout", "stderr"}
\* lines the subprocess may write per stream: standard error carries one
MaxLinesOn(s) == IF s = "stdout" THEN MaxLines ELSE 1
\* exit codes the subprocess may return by itself: success, and a code that
\* one Command allows and another does not
ExitCodes == {0, 1}

VARIABLES
    c,                  \* the Command: ShowOutput, CanFail, AllowedExitCodes
    pc,                 \* position of the task running Command.Run
    ret,                \* what Command.Run returned
    sink,               \* lines written (and flushed) to the response
    ctxDone,            \* c.Request.Context() is done (caller disconnected)
    proc,               \* subprocess: none / running / zombie / reaped
    status,             \* its wait status once it is a zombie or reaped
    emitted,            \* lines it has written so far, per stream
    pipe,               \* lines sitting in the kernel pipe, per stream
    pipeClosed,         \* Wait closed the parent's read ends
    buf,                \* lines held by each bufio.Scanner
    scanner,            \* per stream: none / scan / sending / finished
    waiter,             \* goroutine of main.go:127: none/waiting/sending/finished
    watcher,            \* os/exec goroutine that kills on ctx.Done()
    ticker,             \* backoff.Ticker: none/sending/sent/timer/closed
    tickerStopped,      \* Ticker.Stop() was called
    ticks,              \* ticks delivered so far
    expiredAt,          \* no, or whether the subprocess was still running
                        \* when MaxElapsedTime ran out: running / ended
    processTerminated,  \* local of Run, main.go:156
    killCalls,          \* calls of cmd.Process.Kill() made by the loop
    zeroTicks,          \* a zero tick was received after processTerminated
    cancelKilled,       \* the context watcher killed a running subprocess
    httpStatus,         \* status code written to the response, 0 if none yet
    headerFlushed,      \* the response header was flushed to the caller
    chunked,            \* Transfer-Encoding: chunked is set on the response
    flushed,            \* lines of the response flushed to the caller
    stderrLog,          \* lines printed by c.StderrLogger
    host,               \* the server process: serving / exited
    disconnect          \* goroutine of main.go:222: none / waiting / logged

vars == <<c, pc, ret, sink, ctxDone, proc, status, emitted, pipe, pipeClosed,
          buf, scanner, waiter, watcher, ticker, tickerStopped, ticks,
          expiredAt, processTerminated, killCalls, zeroTicks, cancelKilled,
          httpStatus, headerFlushed, chunked, flushed, stderrLog, host, disconnect>>

procVars == <<proc, status, emitted, pipe>>
scanVars == <<buf, scanner>>
tickVars == <<ticker, ticks, expiredAt>>
loopVars == <<processTerminated, killCalls, zeroTicks>>
hostVars == <<httpStatus, headerFlushed, chunked, host, disconnect>>
logVars == <<flushed, stderrLog>>

\* ------------------------------------------------------------- values
\* AllowedExitCodes as configured: NewCommand's {0}, or 0 with further codes
AllowedChoices == {{0}, {0, 1}}

Commands == [ShowOutput : BOOLEAN, CanFail : BOOLEAN,
             AllowedExitCodes : AllowedChoices]

NewCommand == [ShowOutput |-> TRUE, CanFail |-> FALSE, AllowedExitCodes |-> {0}]

Line(kind, stream, n) == [kind |-> kind, stream |-> stream, n |-> n]
RunningLine == Line("Running command", "", 0)
WaitingLine == Line("Still waiting for command to complete", "", 0)
TimedOutLine == Line("Command timed out", "", MaxElapsedMinutes)
CompletedLine == Line("Command completed", "", 0)
BadRequestLine == Line("Bad Request", "", 0)
OutputLine(s, i) == Line("output", s, i)

Result(kind, code) == [kind |-> kind, code |-> code]
NotReturned == Result("running", 0)
Nil == Result("nil", 0)
ErrStdoutPipe == Result("error getting stdout pipe", 0)
ErrStderrPipe == Result("error getting stderr pipe", 0)
ErrStart == Result("error starting command", 0)
ErrTerminate == Result("Failed to terminate command", 0)
ErrExitStatus(code) == Result("Command exited with status code", code)

writeProgress(w, message) == Append(w, message)

\* main.go:93-97 as a step: the message is logged, written to the response
\* and flushed
Progress(message) ==
    /\ stderrLog' = Append(stderrLog, message)
    /\ sink' = writeProgress(sink, message)
    /\ flushed' = Len(sink) + 1

\* main.go:163: the message is logged and nothing else
LogOnly(message) ==
    /\ stderrLog' = Append(stderrLog, message)
    /\ UNCHANGED <<sink, flushed>>

NoProgress == UNCHANGED <<sink, flushed, stderrLog>>

\* the server process is running: its goroutines can take steps
Alive == host = "serving"

\* ------------------------------------------------------------- Init
Init ==
    /\ c \in Commands
    /\ pc = "handler"
    /\ ret = NotReturned
    /\ sink = <<>>
    /\ ctxDone = FALSE
    /\ proc = "none"
    /\ status = 0
    /\ emitted = [s \in Streams |-> 0]
    /\ pipe = [s \in Streams |-> <<>>]
    /\ pipeClosed = FALSE
    /\ buf = [s \in Streams |-> <<>>]
    /\ scanner = [s \in Streams |-> "none"]
    /\ waiter = "none"
    /\ watcher = "none"
    /\ ticker = "none"
    /\ tickerStopped = FALSE
    /\ ticks = 0
    /\ expiredAt = "no"
    /\ processTerminated = FALSE
    /\ killCalls = 0
    /\ zeroTicks = FALSE
    /\ cancelKilled = FALSE
    /\ httpStatus = 0
    /\ headerFlushed = FALSE
    /\ chunked = FALSE
    /\ flushed = 0
    /\ stderrLog = <<>>
    /\ host = "serving"
    /\ disconnect = "none"

\* ------------------------------------------------------------- handler
\* positions at which the handler has ended
HandlerEnds == {"nocommand", "rejected", "fatal", "served"}

\* main.go:218-219, 232-233, 238-239: http.Error and return; the server
\* cancels the request's context when the handler returns
Reject ==
    /\ httpStatus' = 400
    /\ sink' = Append(sink, BadRequestLine)
    /\ pc' = "rejected"
    /\ ctxDone' = TRUE

\* main.go:212-214: log.Fatalf when the server was started without a command
HandlerArgs ==
    /\ pc = "handler"
    /\ \E hasCommand \in BOOLEAN :
         IF hasCommand THEN pc' = "flusher" /\ host' = host
                       ELSE pc' = "nocommand" /\ host' = "exited"
    /\ UNCHANGED <<c, ret, sink, ctxDone, procVars, pipeClosed, scanVars,
                   waiter, watcher, tickVars, tickerStopped, loopVars,
                   cancelKilled, httpStatus, headerFlushed, chunked, disconnect,
                   logVars>>

\* main.go:216-225: the response must support flushing; then the goroutine
\* that logs a disconnect is started
HandlerFlusher ==
    /\ pc = "flusher"
    /\ \E ok \in BOOLEAN :
         IF ok THEN /\ pc' = "readbody"
                    /\ disconnect' = "waiting"
                    /\ UNCHANGED <<httpStatus, sink, ctxDone>>
               ELSE /\ Reject
                    /\ disconnect' = disconnect
    /\ UNCHANGED <<c, ret, procVars, pipeClosed, scanVars, waiter, watcher,
                   tickVars, tickerStopped, loopVars, cancelKilled,
                   headerFlushed, chunked, host, logVars>>

\* main.go:228-243: the body is read and, if not empty, parsed
HandlerBody ==
    /\ pc = "readbody"
    /\ \E body \in {"empty", "message", "unreadable", "malformed"} :
         IF body \in {"empty", "message"}
         THEN /\ pc' = "commit"
              /\ UNCHANGED <<httpStatus, sink, ctxDone>>
         ELSE Reject
    /\ UNCHANGED <<c, ret, procVars, pipeClosed, scanVars, waiter, watcher,
                   tickVars, tickerStopped, loopVars, cancelKilled,
                   headerFlushed, chunked, host, disconnect, logVars>>

\* a handler that would leave the status to the first write of the body
CommitNothing ==
    /\ pc = "commit"
    /\ pc' = "start"
    /\ UNCHANGED <<c, ret, sink, ctxDone, procVars, pipeClosed, scanVars,
                   waiter, watcher, tickVars, tickerStopped, loopVars,
                   cancelKilled, hostVars, logVars>>

\* main.go:248-256: status 200 with chunked transfer encoding is written
\* and flushed, then the Command is built
HandlerCommit ==
    /\ pc = "commit"
    /\ httpStatus' = 200
    /\ headerFlushed' = TRUE
    /\ chunked' = TRUE
    /\ pc' = "start"
    /\ UNCHANGED <<c, ret, sink, ctxDone, procVars, pipeClosed, scanVars,
                   waiter, watcher, tickVars, tickerStopped, loopVars,
                   cancelKilled, host, disconnect, logVars>>

\* a handler that would return normally whatever Run returned
AfterRunIgnoringError ==
    /\ pc = "returned"
    /\ pc' = "served"
    /\ ctxDone' = TRUE
    /\ UNCHANGED <<c, ret, sink, procVars, pipeClosed, scanVars, waiter,
                   watcher, tickVars, tickerStopped, loopVars, cancelKilled,
                   hostVars, logVars>>

\* main.go:257-261: log.Fatal(err) ends the server process; otherwise the
\* handler returns and the server cancels the request's context
HandlerAfterRun ==
    /\ pc = "returned"
    /\ IF ret # Nil
       THEN /\ pc' = "fatal"
            /\ host' = "exited"
            /\ ctxDone' = ctxDone
       ELSE /\ pc' = "served"
            /\ host' = host
            /\ ctxDone' = TRUE
    /\ UNCHANGED <<c, ret, sink, procVars, pipeClosed, scanVars, waiter,
                   watcher, tickVars, tickerStopped, loopVars, cancelKilled,
                   httpStatus, headerFlushed, chunked, disconnect, logVars>>

\* main.go:222-225: the goroutine sees the context done and logs
DisconnectLog ==
    /\ Alive
    /\ disconnect = "waiting"
    /\ ctxDone
    /\ disconnect' = "logged"
    /\ UNCHANGED <<c, pc, ret, sink, ctxDone, procVars, pipeClosed, scanVars,
                   waiter, watcher, tickVars, tickerStopped, loopVars,
                   cancelKilled, httpStatus, headerFlushed, chunked, host, logVars>>

\* ------------------------------------------------------------- Run, setup
Return(r) ==
    /\ pc' = "returned"
    /\ ret' = r

\* main.go:100-101
RunBegin ==
    /\ pc = "start"
    /\ Progress(RunningLine)
    /\ pc' = "stdoutpipe"
    /\ UNCHANGED <<c, hostVars, ret, ctxDone, procVars, pipeClosed, scanVars, waiter,
                   watcher, tickVars, tickerStopped, loopVars, cancelKilled>>

\* main.go:106-110
StdoutPipe ==
    /\ pc = "stdoutpipe"
    /\ \E ok \in BOOLEAN :
         IF ok THEN pc' = "stderrpipe" /\ ret' = ret
               ELSE Return(ErrStdoutPipe)
    /\ UNCHANGED <<c, hostVars, logVars, sink, ctxDone, procVars, pipeClosed, scanVars, waiter,
                   watcher, tickVars, tickerStopped, loopVars, cancelKilled>>

\* main.go:112-116
StderrPipe ==
    /\ pc = "stderrpipe"
    /\ \E ok \in BOOLEAN :
         IF ok THEN pc' = "startcmd" /\ ret' = ret
               ELSE Return(ErrStderrPipe)
    /\ UNCHANGED <<c, hostVars, logVars, sink, ctxDone, procVars, pipeClosed, scanVars, waiter,
                   watcher, tickVars, tickerStopped, loopVars, cancelKilled>>

\* a Run that would start the goroutines before looking at Start's error
StartSpawningFirst ==
    /\ pc = "startcmd"
    /\ waiter' = "waiting"
    /\ scanner' = [s \in Streams |-> "scan"]
    /\ \E ok \in BOOLEAN :
         IF ok /\ ~ctxDone
         THEN /\ pc' = "loop"
              /\ ret' = ret
              /\ proc' = "running"
              /\ watcher' = "watching"
              /\ ticker' = "sending"
         ELSE /\ Return(ErrStart)
              /\ UNCHANGED <<proc, watcher, ticker>>
    /\ UNCHANGED <<c, hostVars, logVars, sink, ctxDone, status, emitted, pipe, pipeClosed, buf,
                   tickerStopped, ticks, expiredAt, loopVars, cancelKilled>>

\* main.go:118-156: cmd.Start() refuses a context that is already done and
\* may fail to launch; otherwise the subprocess runs, the three goroutines
\* and the ticker are started (the ticker sends its first tick at once).
Start ==
    /\ pc = "startcmd"
    /\ \E ok \in BOOLEAN :
         IF ok /\ ~ctxDone
         THEN /\ pc' = "loop"
              /\ ret' = ret
              /\ proc' = "running"
              /\ waiter' = "waiting"
              /\ watcher' = "watching"
              /\ scanner' = [s \in Streams |-> "scan"]
              /\ ticker' = "sending"
         ELSE /\ Return(ErrStart)
              /\ UNCHANGED <<proc, waiter, watcher, scanner, ticker>>
    /\ UNCHANGED <<c, hostVars, logVars, sink, ctxDone, status, emitted, pipe, pipeClosed, buf,
                   tickerStopped, ticks, expiredAt, loopVars, cancelKilled>>

\* ------------------------------------------------------------- subprocess
\* the subprocess writes a complete line to one of its streams
ProcEmit(s) ==
    /\ proc = "running"
    /\ emitted[s] < MaxLinesOn(s)
    /\ emitted' = [emitted EXCEPT ![s] = @ + 1]
    /\ pipe' = [pipe EXCEPT ![s] = Append(@, emitted[s] + 1)]
    /\ UNCHANGED <<c, hostVars, logVars, pc, ret, sink, ctxDone, proc, status, pipeClosed,
                   scanVars, waiter, watcher, tickVars, tickerStopped,
                   loopVars, cancelKilled>>

\* the subprocess exits by itself
ProcExit(code) ==
    /\ proc = "running"
    /\ proc' = "zombie"
    /\ status' = code
    /\ UNCHANGED <<c, hostVars, logVars, pc, ret, sink, ctxDone, emitted, pipe, pipeClosed,
                   scanVars, waiter, watcher, tickVars, tickerStopped,
                   loopVars, cancelKilled>>

\* os.Process.Kill(): fails once Wait has seen the process end ("os: process
\* already finished"); a running process dies of the signal; a zombie is
\* signalled without effect.
KillFails == proc = "reaped"
ProcAfterKill == IF proc = "running" THEN "zombie" ELSE proc
StatusAfterKill == IF proc = "running" THEN Killed ELSE status

\* ------------------------------------------------------------- goroutines
\* main.go:127-129, up to the send: cmd.Wait() returns once the subprocess
\* has ended; it releases the context watcher and closes the read ends of
\* both pipes, then the goroutine offers the result on `done`.
WaitReturn ==
    /\ Alive
    /\ waiter = "waiting"
    /\ proc = "zombie"
    /\ proc' = "reaped"
    /\ pipeClosed' = TRUE
    /\ watcher' = "finished"
    /\ waiter' = "sending"
    /\ UNCHANGED <<c, hostVars, logVars, pc, ret, sink, ctxDone, status, emitted, pipe, scanVars,
                   tickVars, tickerStopped, loopVars, cancelKilled>>

\* the error cmd.Wait() returned: nil for exit status 0, else an ExitError
\* carrying the wait status
WaitErrIsNil == status = 0

\* a scanner goroutine that would write the line it read to the response
ScanReadWriting(s) ==
    /\ Alive
    /\ scanner[s] = "scan"
    /\ ~pipeClosed
    /\ pipe[s] # <<>>
    /\ Progress(OutputLine(s, Head(pipe[s])))
    /\ buf' = [buf EXCEPT ![s] = pipe[s]]
    /\ pipe' = [pipe EXCEPT ![s] = <<>>]
    /\ scanner' = [scanner EXCEPT ![s] = "sending"]
    /\ UNCHANGED <<c, hostVars, pc, ret, ctxDone, proc, status, emitted,
                   pipeClosed, waiter, watcher, tickVars, tickerStopped,
                   loopVars, cancelKilled>>

\* main.go:133 / 139: Scan() with an empty buffer reads what the pipe holds
\* and yields the first line, which the goroutine offers on `output`.
ScanRead(s) ==
    /\ Alive
    /\ scanner[s] = "scan"
    /\ ~pipeClosed
    /\ pipe[s] # <<>>
    /\ buf' = [buf EXCEPT ![s] = pipe[s]]
    /\ pipe' = [pipe EXCEPT ![s] = <<>>]
    /\ scanner' = [scanner EXCEPT ![s] = "sending"]
    /\ UNCHANGED <<c, hostVars, logVars, pc, ret, sink, ctxDone, proc, status, emitted,
                   pipeClosed, waiter, watcher, tickVars, tickerStopped,
                   loopVars, cancelKilled>>

\* main.go:133 / 139: Scan() returns false at end of file (the subprocess
\* ended and the pipe is drained) or when the read end was closed under it;
\* what the pipe still held is gone with it.
ScanEnd(s) ==
    /\ Alive
    /\ scanner[s] = "scan"
    /\ \/ pipeClosed
       \/ pipe[s] = <<>> /\ proc \in {"zombie", "reaped"}
    /\ scanner' = [scanner EXCEPT ![s] = "finished"]
    /\ UNCHANGED <<c, hostVars, logVars, pc, ret, sink, ctxDone, procVars, pipeClosed, buf,
                   waiter, watcher, tickVars, tickerStopped, loopVars,
                   cancelKilled>>

\* a scanner that would send the newest line it holds first
DeliverReordered(b) == [text |-> b[Len(b)], rest |-> SubSeq(b, 1, Len(b) - 1)]

\* main.go:133-136 / 139-142: the line a scanner goroutine sends next (the
\* oldest it holds) and what it keeps for the following Scan() calls
Deliver(b) == [text |-> Head(b), rest |-> Tail(b)]

\* ------------------------------------------------------------- context
\* the caller disconnects: the request's context is done
Cancel ==
    /\ ~ctxDone
    /\ pc \notin HandlerEnds
    /\ ctxDone' = TRUE
    /\ UNCHANGED <<c, hostVars, logVars, pc, ret, sink, procVars, pipeClosed, scanVars, waiter,
                   watcher, tickVars, tickerStopped, loopVars, cancelKilled>>

\* main.go:104: exec.CommandContext - a goroutine of os/exec kills the
\* subprocess when the context is done before Wait returns
CtxKill ==
    /\ Alive
    /\ watcher = "watching"
    /\ ctxDone
    /\ watcher' = "finished"
    /\ proc' = ProcAfterKill
    /\ status' = StatusAfterKill
    /\ cancelKilled' = (cancelKilled \/ proc = "running")
    /\ UNCHANGED <<c, hostVars, logVars, pc, ret, sink, ctxDone, emitted, pipe, pipeClosed,
                   scanVars, waiter, tickVars, tickerStopped, loopVars>>

\* ------------------------------------------------------------- ticker
\* main.go:145-154: after delivering a tick the ticker asks the backoff for
\* the next interval; the backoff answers Stop when the context is done or
\* MaxElapsedTime would be exceeded, and then the ticker closes its channel.
TickerNextBackOff ==
    /\ Alive
    /\ ticker = "sent"
    /\ IF ctxDone
       THEN /\ ticker' = "closed"
            /\ tickerStopped' = TRUE
            /\ expiredAt' = expiredAt
       ELSE \E expired \in BOOLEAN :
              /\ ticks >= MaxTicks => expired
              /\ IF expired
                 THEN /\ ticker' = "closed"
                      /\ tickerStopped' = TRUE
                      /\ expiredAt' = IF proc = "running" THEN "running"
                                                          ELSE "ended"
                 ELSE /\ ticker' = "timer"
                      /\ UNCHANGED <<tickerStopped, expiredAt>>
    /\ UNCHANGED <<c, hostVars, logVars, pc, ret, sink, ctxDone, procVars, pipeClosed, scanVars,
                   waiter, watcher, ticks, loopVars, cancelKilled>>

\* the interval timer fires: the ticker offers the next tick
TickerFire ==
    /\ Alive
    /\ ticker = "timer"
    /\ ticker' = "sending"
    /\ UNCHANGED <<c, hostVars, logVars, pc, ret, sink, ctxDone, procVars, pipeClosed, scanVars,
                   waiter, watcher, tickerStopped, ticks, expiredAt, loopVars,
                   cancelKilled>>

\* while waiting for the timer the ticker sees the context done
TickerCtxDone ==
    /\ Alive
    /\ ticker = "timer"
    /\ ctxDone
    /\ ticker' = "closed"
    /\ UNCHANGED <<c, hostVars, logVars, pc, ret, sink, ctxDone, procVars, pipeClosed, scanVars,
                   waiter, watcher, tickerStopped, ticks, expiredAt, loopVars,
                   cancelKilled>>

\* the ticker sees that Stop() was called (main.go:183)
TickerSeesStop ==
    /\ Alive
    /\ ticker \in {"timer", "sending"}
    /\ tickerStopped
    /\ ticker' = "closed"
    /\ UNCHANGED <<c, hostVars, logVars, pc, ret, sink, ctxDone, procVars, pipeClosed, scanVars,
                   waiter, watcher, tickerStopped, ticks, expiredAt, loopVars,
                   cancelKilled>>

\* ------------------------------------------------------------- event loop
\* a loop that would surface output whatever ShowOutput says
SurfacedAlways(cmd) == TRUE

\* main.go:160
Surfaced(cmd) == cmd.ShowOutput

\* main.go:159-164: an output line is received from a scanner goroutine
LoopOutput(s) ==
    /\ pc = "loop"
    /\ scanner[s] = "sending"
    /\ LET d == Deliver(buf[s]) IN
         /\ IF Surfaced(c)
            THEN Progress(OutputLine(s, d.text))
            ELSE LogOnly(OutputLine(s, d.text))
         /\ buf' = [buf EXCEPT ![s] = d.rest]
         /\ scanner' = [scanner EXCEPT ![s] =
                          IF d.rest = <<>> THEN "scan" ELSE "sending"]
    /\ UNCHANGED <<c, hostVars, pc, ret, ctxDone, procVars, pipeClosed,
                   waiter, watcher, tickVars, tickerStopped, loopVars,
                   cancelKilled>>

\* main.go:165-166, 176-181: a tick sent by the ticker; `late` says whether
\* more than a second passed since the last liveness line
LoopTick ==
    /\ pc = "loop"
    /\ ticker = "sending"
    /\ ticker' = "sent"
    /\ ticks' = ticks + 1
    /\ \E late \in BOOLEAN :
         IF late THEN Progress(WaitingLine) ELSE NoProgress
    /\ UNCHANGED <<c, hostVars, pc, ret, ctxDone, procVars, pipeClosed, scanVars,
                   waiter, watcher, tickerStopped, expiredAt, loopVars,
                   cancelKilled>>

\* the guard of main.go:168 without its negation: kill on every zero tick
MustKillAlways(terminated) == TRUE

\* a loop that would never kill the subprocess on a closed ticker
MustKillNever(terminated) == FALSE

\* main.go:168
MustKill(terminated) == ~terminated

\* main.go:165-175: the ticker's channel is closed, the receive yields the
\* zero time (tick.Year() == 1)
LoopTickZero ==
    /\ pc = "loop"
    /\ ticker = "closed"
    /\ IF MustKill(processTerminated)
       THEN /\ tickerStopped' = TRUE
            /\ killCalls' = killCalls + 1
            /\ zeroTicks' = zeroTicks
            /\ IF KillFails
               THEN /\ Return(ErrTerminate)
                    /\ NoProgress
                    /\ UNCHANGED <<proc, status, processTerminated>>
               ELSE /\ proc' = ProcAfterKill
                    /\ status' = StatusAfterKill
                    /\ Progress(TimedOutLine)
                    /\ processTerminated' = TRUE
                    /\ UNCHANGED <<pc, ret>>
       ELSE /\ zeroTicks' = TRUE
            /\ NoProgress
            /\ UNCHANGED <<pc, ret, proc, status, tickerStopped,
                           processTerminated, killCalls>>
    /\ UNCHANGED <<c, hostVars, ctxDone, emitted, pipe, pipeClosed, scanVars, waiter,
                   watcher, tickVars, cancelKilled>>

\* main.go:186-206: what Run returns for the error cmd.Wait() gave
Classify(cmd, nilErr, st) ==
    IF nilErr THEN Nil
    ELSE IF cmd.CanFail THEN Nil
    ELSE IF st \in cmd.AllowedExitCodes THEN Nil
    ELSE ErrExitStatus(st)

\* main.go:182-206: the result of cmd.Wait() is received
LoopDone ==
    /\ pc = "loop"
    /\ waiter = "sending"
    /\ waiter' = "finished"
    /\ tickerStopped' = TRUE
    /\ IF WaitErrIsNil THEN Progress(CompletedLine) ELSE NoProgress
    /\ Return(Classify(c, WaitErrIsNil, status))
    /\ UNCHANGED <<c, hostVars, ctxDone, procVars, pipeClosed, scanVars, watcher,
                   tickVars, loopVars, cancelKilled>>

\* ------------------------------------------------------------- specification
Next ==
    \/ HandlerArgs
    \/ HandlerFlusher
    \/ HandlerBody
    \/ HandlerCommit
    \/ HandlerAfterRun
    \/ DisconnectLog
    \/ RunBegin
    \/ StdoutPipe
    \/ StderrPipe
    \/ Start
    \/ \E s \in Streams : ProcEmit(s)
    \/ \E code \in ExitCodes : ProcExit(code)
    \/ WaitReturn
    \/ \E s \in Streams : ScanRead(s)
    \/ \E s \in Streams : ScanEnd(s)
    \/ Cancel
    \/ CtxKill
    \/ TickerNextBackOff
    \/ TickerFire
    \/ TickerCtxDone
    \/ TickerSeesStop
    \/ \E s \in Streams : LoopOutput(s)
    \/ LoopTick
    \/ LoopTickZero
    \/ LoopDone

Spec == Init /\ [][Next]_vars

\* Run for either value of the ShowOutput field (main.go:38, 160), the other
\* fields as NewCommand sets them
InitSurfacing ==
    /\ Init
    /\ c.CanFail = NewCommand.CanFail
    /\ c.AllowedExitCodes = NewCommand.AllowedExitCodes
SpecSurfacing == InitSurfacing /\ [][Next]_vars

\* Scheduling, as far as Run's return depends on it. The Go scheduler runs
\* every runnable goroutine, so the wait goroutine (main.go:127-129) and the
\* ticker's goroutine (main.go:154) take the steps that stay possible, and
\* the ticker's timer fires; `select` chooses at random among its ready
\* cases (main.go:158), so a case that stays ready is taken. Nothing is
\* assumed of the subprocess (it may never write or exit), of the caller (it
\* may never disconnect) or of the other goroutines.
Fairness ==
    /\ WF_vars(WaitReturn)
    /\ WF_vars(TickerNextBackOff) /\ WF_vars(TickerFire)
    /\ WF_vars(LoopTick) /\ WF_vars(LoopTickZero) /\ WF_vars(LoopDone)

\* the steps of the one task that runs the handler and, inside it,
\* Command.Run with its event loop (main.go:211-260, 99-209)
HandlerTask ==
    \/ HandlerArgs \/ HandlerFlusher \/ HandlerBody \/ HandlerCommit
    \/ HandlerAfterRun
    \/ RunBegin \/ StdoutPipe \/ StderrPipe \/ Start
    \/ \E s \in Streams : LoopOutput(s)
    \/ LoopTick \/ LoopTickZero \/ LoopDone

\* the server as it is built: the handler runs the Command that NewCommand
\* returns and changes none of its fields (main.go:256-257)
InitProgram == Init /\ c = NewCommand
SpecProgram == InitProgram /\ [][Next]_vars
SpecFair == SpecProgram /\ Fairness

\* ------------------------------------------------------------- claims
Range(q) == {q[i] : i \in DOMAIN q}
Returned == pc = "returned"
\* the subprocess was started and has ended (by itself or by a signal)
Ended == proc \in {"zombie", "reaped"}
IsOutput(l) == l.kind = "output"
Occurrences(q, l) == Cardinality({i \in DOMAIN q : q[i] = l})

\* C1: whenever Run has returned for a subprocess that exited with code 0,
\* it returned nil and a "Command completed" line is in the response
\* (stated for the Command that NewCommand builds).
C1_ExitZeroSucceeds ==
    (c = NewCommand /\ Returned /\ Ended /\ status = 0)
        => (ret = Nil /\ CompletedLine \in Range(sink))

\* C2: whenever Run has returned for a Command with CanFail false whose
\* subprocess exited with a code outside AllowedExitCodes, it returned the
\* failure that carries exactly that exit code (stated for the Command that
\* NewCommand builds: CanFail false, AllowedExitCodes {0}).
C2_DisallowedExitFails ==
    (c = NewCommand /\ Returned /\ Ended /\ ~c.CanFail
       /\ status \in ExitCodes /\ status \notin c.AllowedExitCodes)
        => ret = ErrExitStatus(status)

\* C3: whenever Run has returned for a subprocess that exited with a
\* non-zero code that is in AllowedExitCodes, it returned nil.
C3_AllowedExitSucceeds ==
    (Returned /\ Ended /\ status \in ExitCodes \ {0}
       /\ status \in c.AllowedExitCodes)
        => ret = Nil

\* C4: whenever Run has returned for a Command with CanFail true whose
\* subprocess exited with a non-zero code, it returned nil.
C4_CanFailSucceeds ==
    (Returned /\ Ended /\ c.CanFail /\ status \in ExitCodes \ {0})
        => ret = Nil

\* C5: the loop calls Process.Kill at most once and writes "Command timed
\* out" at most once; once it has handled a zero tick (it killed, or it
\* returned because the kill failed) it has called Kill exactly once,
\* however many zero ticks it received afterwards.
C5_KillOnce ==
    /\ killCalls <= 1
    /\ Occurrences(sink, TimedOutLine) <= 1
    /\ (processTerminated \/ ret = ErrTerminate \/ zeroTicks)
          => killCalls = 1

\* C5 witness: MaxElapsedTime ran out, the loop killed the subprocess and
\* wrote the line, and further zero ticks arrived afterwards.
C5_Witness ==
    /\ expiredAt # "no"
    /\ processTerminated
    /\ zeroTicks
    /\ killCalls = 1
    /\ Occurrences(sink, TimedOutLine) = 1

\* C6: whenever Run has returned after MaxElapsedTime ran out with the
\* subprocess still running and the loop took its timeout branch, Run
\* returned a failure and the last line of the response is the "Command
\* timed out" line naming the configured maximum (stated for the Command
\* that NewCommand builds).
C6_TimedOutIsFinal ==
    (c = NewCommand /\ Returned /\ expiredAt = "running" /\ processTerminated)
        => (ret # Nil /\ sink[Len(sink)] = TimedOutLine)

\* C7: once the context watcher has killed the running subprocess after
\* the caller disconnected, no step writes another line to the response
\* (stated for the Command that NewCommand builds).
C7_SilentAfterCancel ==
    [][(c = NewCommand /\ cancelKilled) => sink' = sink]_vars

\* C8: with ShowOutput, whenever Run has returned for a started subprocess,
\* every line the subprocess wrote on either stream is in the response
\* (stated for the Command that NewCommand builds, which has ShowOutput).
C8_NoLineLost ==
    (c = NewCommand /\ Returned /\ Ended /\ c.ShowOutput)
        => \A s \in Streams : \A i \in 1..emitted[s] :
              OutputLine(s, i) \in Range(sink)

\* C9: any two output lines of the same stream appear in the response in
\* the order the subprocess wrote them.
C9_StreamOrder ==
    \A i, j \in DOMAIN sink :
        (i < j /\ IsOutput(sink[i]) /\ IsOutput(sink[j])
           /\ sink[i].stream = sink[j].stream)
            => sink[i].n < sink[j].n

\* C9 witness: two lines of standard output and a line of standard error
\* have been written to the response.
C9_Witness ==
    /\ OutputLine("stdout", 1) \in Range(sink)
    /\ OutputLine("stdout", 2) \in Range(sink)
    /\ OutputLine("stderr", 1) \in Range(sink)

\* C10: a final status line ("Command completed" or "Command timed out";
\* the failure is never written to the response) is the last line written:
\* no line follows it (stated for the Command that NewCommand builds).
C10_FinalLineIsLast ==
    c = NewCommand =>
        \A i \in DOMAIN sink :
            sink[i] \in {CompletedLine, TimedOutLine} => i = Len(sink)

\* the line that would report the error r to the caller
ErrorLine(r) == Line(r.kind, "", r.code)

\* C11: whenever the handler has ended an invocation whose Run returned an
\* error, the last line written to the response reports that error
\* (stated for the Command that NewCommand builds).
C11_ErrorsReachCaller ==
    (c = NewCommand /\ pc = "fatal")
        => sink[Len(sink)] = ErrorLine(ret)

\* C12: the server process exits abnormally exactly when Run returned an
\* error: after an error the handler has ended the process, after success the
\* handler has returned and the process keeps serving.
C12_HostExitsIffRunFails ==
    /\ pc = "fatal" => (ret \notin {Nil, NotReturned} /\ host = "exited")
    /\ pc = "served" => (ret = Nil /\ host = "serving")
    /\ ret = Nil => host = "serving"
    /\ (ret # NotReturned /\ host = "exited") => pc = "fatal"

\* the subprocess exited with status 1, Run failed, the process was ended
C12_Witness ==
    /\ c = NewCommand
    /\ pc = "fatal"
    /\ ret = ErrExitStatus(1)
    /\ host = "exited"

\* C13: a subprocess is started only after status 200 with chunked transfer
\* encoding was written and flushed; once written, the status never changes;
\* a request answered with 400 never has a subprocess.
C13_StatusCommittedFirst ==
    /\ [](proc # "none" => (httpStatus = 200 /\ chunked /\ headerFlushed))
    /\ [][httpStatus # 0 => httpStatus' = httpStatus]_vars
    /\ [](httpStatus = 400 => (proc = "none" /\ pc = "rejected"))

\* the run failed after the subprocess ran, the status is still 200
C13_Witness ==
    /\ proc = "reaped"
    /\ pc = "fatal"
    /\ ret = ErrExitStatus(1)
    /\ httpStatus = 200

\* the errors Run returns before the event loop
SetupErrors == {ErrStdoutPipe, ErrStderrPipe, ErrStart}

\* C14: when Run has returned a setup error there is no subprocess, no wait
\* goroutine, no scanner goroutine, no watcher and no ticker; the event loop
\* did nothing (no kill, no tick, no line after "Running command"), and the
\* error is not the outcome of classifying an exit status.
C14_SetupFailureReturnsAtOnce ==
    ret \in SetupErrors
        => /\ proc = "none"
           /\ emitted = [s \in Streams |-> 0]
           /\ waiter = "none"
           /\ watcher = "none"
           /\ ticker = "none"
           /\ \A s \in Streams : scanner[s] = "none"
           /\ killCalls = 0 /\ ticks = 0 /\ ~processTerminated /\ ~zeroTicks
           /\ sink = <<RunningLine>>
           /\ pc \in {"returned", "fatal"}

\* launching the process failed and the handler ended the server
C14_Witness ==
    /\ ret = ErrStart
    /\ pc = "fatal"

\* C15: every return from the event loop has received the result of
\* cmd.Wait() from the wait goroutine: neither an output event nor a tick
\* (the timeout tick and its kill included) makes the loop return
\* (stated for the Command that NewCommand builds).
C15_LoopEndsOnCompletion ==
    (c = NewCommand /\ ret \notin SetupErrors \cup {NotReturned})
        => waiter = "finished"

\* C16: when the caller's cancellation fires and the maximum elapsed time
\* has not been reached, the loop leaves the subprocess to the context: it
\* has called Process.Kill no time and written no "Command timed out" line
\* (stated for the Command that NewCommand builds).
C16_CancelLeavesLoopAlone ==
    (c = NewCommand /\ ctxDone /\ expiredAt = "no")
        => (killCalls = 0 /\ TimedOutLine \notin Range(sink))

\* C17: every step that writes to the response or flushes it is a step of
\* the task running the handler and Run's event loop; the wait goroutine, the
\* scanner goroutines, the ticker, the context watcher and the disconnect
\* goroutine never do.
C17_OnlyHandlerTaskWrites ==
    [][(sink' # sink \/ flushed' # flushed \/ headerFlushed' # headerFlushed)
          => HandlerTask]_vars

\* output was written to the response while every background task has run
\* to its end
C17_Witness ==
    /\ \E s \in Streams : \E i \in 1..MaxLines : OutputLine(s, i) \in Range(sink)
    /\ WaitingLine \in Range(sink)
    /\ waiter = "finished"
    /\ \A s \in Streams : scanner[s] = "finished"
    /\ ticker = "closed"
    /\ disconnect = "logged"

\* the step is an output event: the event loop receives the line that the
\* scanner goroutine of stream s holds
OutputEvent(s) ==
    /\ pc = "loop"
    /\ buf[s] # <<>>
    /\ buf'[s] # buf[s]

\* C18: on an output event with ShowOutput set, the line is logged, appended
\* to the response and flushed at once; with ShowOutput unset it is logged and
\* the response and its flush position stay as they were, so that no output
\* line is ever in the response.
C18_OutputSurfacedOrLogged ==
    /\ [][\A s \in Streams :
            OutputEvent(s) =>
              LET line == OutputLine(s, Head(buf[s])) IN
                /\ stderrLog' = Append(stderrLog, line)
                /\ IF c.ShowOutput
                   THEN sink' = Append(sink, line) /\ flushed' = Len(sink')
                   ELSE sink' = sink /\ flushed' = flushed]_vars
    /\ [](~c.ShowOutput => \A i \in 1..Len(sink) : sink[i].kind # "output")

\* with ShowOutput unset both streams' lines were logged, the response has
\* none of them
C18_Witness ==
    /\ ~c.ShowOutput
    /\ \A s \in Streams : OutputLine(s, 1) \in Range(stderrLog)
    /\ \A i \in 1..Len(sink) : sink[i].kind # "output"
    /\ pc = "served"

\* C19: once the handler has returned after a successful Run and the server
\* keeps serving, no goroutine of that Run is left at a channel send that the
\* event loop will never receive (stated for the Command that NewCommand
\* builds).
C19_NoTaskLeftSending ==
    (c = NewCommand /\ pc = "served")
        => (waiter # "sending" /\ \A s \in Streams : scanner[s] # "sending")

\* C20: once the subprocess is started Run returns, whatever the subprocess
\* and the caller do, and what Run returned never changes afterwards.
C20_RunReturnsOnce ==
    /\ (proc # "none") ~> (ret # NotReturned)
    /\ [][ret # NotReturned => ret' = ret]_vars

\* a subprocess that did not exit by itself and a caller that stayed: the
\* deadline passed, the loop killed the subprocess, the wait result ended Run
C20_Witness ==
    /\ expiredAt = "running"
    /\ ~ctxDone
    /\ killCalls = 1
    /\ status = Killed
    /\ waiter = "finished"
    /\ ret = ErrExitStatus(Killed)

====
